---- MODULE Spec2Model ----
(***************************************************************************)
(* Search Query Generator (sqg): the term formatter, the query assembler   *)
(* and the command line driver.                                            *)
(*                                                                         *)
(* A Python str is a sequence of one-character strings, so that strip(),   *)
(* the `" " in term` test, concatenation and the code point ordering used  *)
(* by sorted() are computed rather than assumed.  A Set[str] is a set of   *)
(* such sequences; a dict that is iterated (group_terms) is the sequence   *)
(* of its (key, value) items in insertion order; a dict that is only       *)
(* indexed (group_logic) is a function whose DOMAIN is its key set.        *)
(***************************************************************************)
EXTENDS Integers, Sequences, FiniteSets, TLC

VARIABLES pc,              \* position of the process: "start", "returned", or a step of main()
          call,            \* the core function called directly, with its arguments
          ret,             \* what that call returned or raised
          args_metadata,   \* cli: args.metadata is set
          group_terms,     \* cli: main()'s group_terms
          group_settings,  \* cli: main()'s group_settings
          main_group,      \* cli: main()'s main_group
          queries,         \* cli: main()'s queries
          out_file,        \* the file at args.output
          meta_file,       \* the file at args.metadata
          printed,         \* the messages main() printed, in order
          raised_in,       \* the step of main() whose call raised, or "none"
          steps            \* history: the calls of main() that returned, in order

vars == <<pc, call, ret, args_metadata, group_terms, group_settings,
          main_group, queries, out_file, meta_file, printed, raised_in, steps>>

-----------------------------------------------------------------------------
(* Bounds *)

MaxTermLen == 2      \* longest term given to clean_term / format_group
MaxTerms == 3        \* largest term set given to format_group
MaxGroups == 3       \* most groups (columns) in a group_terms mapping
MaxRows == 2         \* most data rows in the input CSV file

-----------------------------------------------------------------------------
(* Strings *)

Lower == <<"a","b","c","d","e","f","g","h","i","j","k","l","m",
           "n","o","p","q","r","s","t","u","v","w","x","y","z">>

\* ord(c) for the characters terms are made of
CodePoint(c) ==
    IF c = " " THEN 32
    ELSE 96 + (CHOOSE i \in 1..Len(Lower) : Lower[i] = c)

Min(a, b) == IF a < b THEN a ELSE b

\* Python's str.__lt__: the first differing character decides, a proper
\* prefix is smaller
StrLess(s, t) ==
    \/ \E i \in 1..Min(Len(s), Len(t)) :
          /\ \A j \in 1..(i-1) : s[j] = t[j]
          /\ CodePoint(s[i]) < CodePoint(t[i])
    \/ /\ Len(s) < Len(t)
       /\ \A j \in 1..Len(s) : s[j] = t[j]

\* Python's str.strip(): drop leading and trailing whitespace
RECURSIVE lstrip(_)
lstrip(s) == IF s # <<>> /\ Head(s) = " " THEN lstrip(Tail(s)) ELSE s

RECURSIVE rstrip(_)
rstrip(s) ==
    IF s # <<>> /\ s[Len(s)] = " " THEN rstrip(SubSeq(s, 1, Len(s) - 1)) ELSE s

strip(s) == rstrip(lstrip(s))

\* Python's sep.join(list)
RECURSIVE join(_, _)
join(sep, list) ==
    IF list = <<>> THEN <<>>
    ELSE IF Len(list) = 1 THEN list[1]
    ELSE list[1] \o sep \o join(sep, Tail(list))

\* sorted() with the comparison reversed: repeatedly take the largest element
RECURSIVE sorted_descending(_)
sorted_descending(S) ==
    IF S = {} THEN <<>>
    ELSE LET m == CHOOSE x \in S : \A y \in S \ {x} : StrLess(y, x)
         IN  <<m>> \o sorted_descending(S \ {m})

\* Python's sorted(set of str): repeatedly take the smallest element
RECURSIVE sorted(_)
sorted(S) ==
    IF S = {} THEN <<>>
    ELSE LET m == CHOOSE x \in S : \A y \in S \ {x} : StrLess(x, y)
         IN  <<m>> \o sorted(S \ {m})

\* A sequence of characters as one TLA+ string, for reading results
RECURSIVE Render(_)
Render(s) == IF s = <<>> THEN "" ELSE Head(s) \o Render(Tail(s))

SPACE == <<" ">>
QUOTE == <<"\"">>
OpAND == <<"A","N","D">>
OpOR  == <<"O","R">>
OpNOT == <<"N","O","T">>

None == "None"       \* Python's None, where a name or a label is expected

-----------------------------------------------------------------------------
(* sqg.py: the term formatter *)

clean_term(term, quote) ==
    IF term = <<>> THEN <<>>
    ELSE LET t == strip(term)
         IN  IF quote \/ (\E i \in 1..Len(t) : t[i] = " ")
             THEN QUOTE \o t \o QUOTE
             ELSE t

format_group(terms, quote, internal_operator) ==
    LET kept == SelectSeq(sorted(terms), LAMBDA t : t # <<>>)
        formatted == [i \in 1..Len(kept) |-> clean_term(kept[i], quote)]
    IN  IF formatted # <<>>
        THEN <<"(">> \o join(SPACE \o internal_operator \o SPACE, formatted) \o <<")">>
        ELSE <<>>

-----------------------------------------------------------------------------
(* sqg.py: the query assembler *)

\* the outcome of a call: a returned value, or an exception and no value
Return(v) == [exc |-> "none", value |-> v]
Raise(e)  == [exc |-> e]

\* dict.keys() of a mapping kept as a sequence of items
Keys(gt) == {gt[i].name : i \in 1..Len(gt)}
\* gt[name]
TermsOf(gt, name) == gt[CHOOSE i \in 1..Len(gt) : gt[i].name = name].terms

\* group_logic[group].get("internal_operator", "OR")
internal_op_of(entry) ==
    IF "internal_operator" \in DOMAIN entry THEN entry.internal_operator ELSE OpOR

\* build_query's loop with the test `i < len(group_items)`: the last group
\* gets its operator too
RECURSIVE build_query_loop_trailing(_, _, _, _)
build_query_loop_trailing(group_items, gl, i, parts) ==
    IF i > Len(group_items) THEN Return(join(SPACE, parts))
    ELSE LET group == group_items[i].name
             terms == group_items[i].terms
         IN  IF group \notin DOMAIN gl THEN Raise("KeyError")
             ELSE LET group_str == format_group(terms, gl[group].quote,
                                                internal_op_of(gl[group]))
                  IN  build_query_loop_trailing(group_items, gl, i + 1,
                          Append(parts, group_str \o SPACE \o gl[group].operator))

\* the for loop of build_query from index i on, parts being the list so far
RECURSIVE build_query_loop(_, _, _, _)
build_query_loop(group_items, gl, i, parts) ==
    IF i > Len(group_items) THEN Return(join(SPACE, parts))
    ELSE LET group == group_items[i].name
             terms == group_items[i].terms
         IN  IF group \notin DOMAIN gl THEN Raise("KeyError")
             ELSE LET group_str == format_group(terms, gl[group].quote,
                                                internal_op_of(gl[group]))
                  IN  IF i < Len(group_items)
                      THEN build_query_loop(group_items, gl, i + 1,
                               Append(parts, group_str \o SPACE \o gl[group].operator))
                      ELSE build_query_loop(group_items, gl, i + 1,
                               Append(parts, group_str))

\* build_query without the `if group_terms[group]` filter of group_items
build_query_keeps_empty(gt, gl) == build_query_loop(gt, gl, 1, <<>>)

\* build_query that first looks up the logic of every key of group_terms
build_query_validating(gt, gl) ==
    IF \E i \in 1..Len(gt) : gt[i].name \notin DOMAIN gl
    THEN Raise("KeyError")
    ELSE build_query_loop(SelectSeq(gt, LAMBDA g : g.terms # {}), gl, 1, <<>>)

build_query(gt, gl) ==
    LET group_items == SelectSeq(gt, LAMBDA g : g.terms # {})
    IN  build_query_loop(group_items, gl, 1, <<>>)

\* the inner for loop of build_queries_by_main_group over static_groups
RECURSIVE static_parts_loop(_, _, _, _)
static_parts_loop(static_groups, gl, i, parts) ==
    IF i > Len(static_groups) THEN Return(parts)
    ELSE LET group == static_groups[i].name
             terms == static_groups[i].terms
         IN  IF group \notin DOMAIN gl THEN Raise("KeyError")
             ELSE LET group_str == format_group(terms, gl[group].quote,
                                                internal_op_of(gl[group]))
                      op == gl[group].operator
                  IN  static_parts_loop(static_groups, gl, i + 1,
                          Append(parts, group_str \o SPACE \o op))

\* the outer loop formatting the whole main group instead of {val}
RECURSIVE main_values_loop_whole_group(_, _, _, _, _, _)
main_values_loop_whole_group(static_groups, gl, mg, main_values, k, qs) ==
    IF k > Len(main_values) THEN Return(qs)
    ELSE LET val == main_values[k]
             static == static_parts_loop(static_groups, gl, 1, <<>>)
         IN  IF static.exc # "none" THEN static
             ELSE IF mg \notin DOMAIN gl THEN Raise("KeyError")
             ELSE LET main_str == format_group(
                                      {main_values[j] : j \in 1..Len(main_values)},
                                      gl[mg].quote, internal_op_of(gl[mg]))
                      parts == Append(static.value, main_str)
                  IN  main_values_loop_whole_group(static_groups, gl, mg, main_values,
                          k + 1, Append(qs, <<val, join(SPACE, parts)>>))

\* the outer for loop over main_values from index k on
RECURSIVE main_values_loop(_, _, _, _, _, _)
main_values_loop(static_groups, gl, mg, main_values, k, qs) ==
    IF k > Len(main_values) THEN Return(qs)
    ELSE LET val == main_values[k]
             static == static_parts_loop(static_groups, gl, 1, <<>>)
         IN  IF static.exc # "none" THEN static
             ELSE IF mg \notin DOMAIN gl THEN Raise("KeyError")
             ELSE LET main_str == format_group({val}, gl[mg].quote,
                                               internal_op_of(gl[mg]))
                      parts == Append(static.value, main_str)
                  IN  main_values_loop(static_groups, gl, mg, main_values, k + 1,
                          Append(qs, <<val, join(SPACE, parts)>>))

\* build_queries_by_main_group iterating the main values unsorted (here: in
\* descending order)
build_queries_by_main_group_unsorted(gt, gl, mg) ==
    IF mg \notin Keys(gt) THEN Raise("ValueError")
    ELSE LET static_groups == SelectSeq(gt, LAMBDA g : g.name # mg /\ g.terms # {})
             main_values == sorted_descending(TermsOf(gt, mg))
         IN  main_values_loop(static_groups, gl, mg, main_values, 1, <<>>)

\* build_queries_by_main_group without the membership test of lines 88-89:
\* group_terms[main_group] raises KeyError
build_queries_by_main_group_unchecked(gt, gl, mg) ==
    IF mg \notin Keys(gt) THEN Raise("KeyError")
    ELSE LET static_groups == SelectSeq(gt, LAMBDA g : g.name # mg /\ g.terms # {})
             main_values == sorted(TermsOf(gt, mg))
         IN  main_values_loop(static_groups, gl, mg, main_values, 1, <<>>)

build_queries_by_main_group(gt, gl, mg) ==
    IF mg \notin Keys(gt) THEN Raise("ValueError")
    ELSE LET static_groups == SelectSeq(gt, LAMBDA g : g.name # mg /\ g.terms # {})
             main_values == sorted(TermsOf(gt, mg))
         IN  main_values_loop(static_groups, gl, mg, main_values, 1, <<>>)

-----------------------------------------------------------------------------
(* Inputs of the direct calls *)

Alphabet == {"a", "b", " "}

\* every str over Alphabet of at most n characters
StringsUpTo(n) == UNION {[1..k -> Alphabet] : k \in 0..n}

\* every subset of S with at most n elements
RECURSIVE SubsetsUpTo(_, _)
SubsetsUpTo(S, n) ==
    IF n = 0 THEN {{}}
    ELSE LET smaller == SubsetsUpTo(S, n - 1)
         IN  smaller \cup {T \cup {x} : T \in smaller, x \in S}

Terms == StringsUpTo(MaxTermLen)
TermSets == SubsetsUpTo(Terms, MaxTerms)

ColumnNames == <<"color", "size", "shape", "brand", "style">>

\* term sets of a group: empty, two terms out of order, a term with a
\* space, and a set holding the empty term
TermSetPool ==
    { {}, {<<"b">>, <<"a">>}, {<<"a", " ", "b">>}, {<<>>, <<"b">>} }

LogicPool ==
    { [quote |-> FALSE, operator |-> OpAND],
      [quote |-> TRUE,  operator |-> OpNOT, internal_operator |-> OpAND],
      [quote |-> FALSE, operator |-> OpOR,  internal_operator |-> OpOR] }

\* mappings of n groups named ColumnNames[1..n], in that order
MappingsOf(n, termSets) ==
    { [i \in 1..n |-> [name |-> ColumnNames[i], terms |-> f[i]]] :
         f \in [1..n -> termSets] }

GroupTermsPool == UNION {MappingsOf(n, TermSetPool) : n \in 0..MaxGroups}

\* logic mappings with an entry for some of the keys of gt
GroupLogicPool(gt) == UNION {[D -> LogicPool] : D \in SUBSET Keys(gt)}

\* a main group: any key of a largest mapping, or a name that is no key
MainGroupPool == {ColumnNames[i] : i \in 1..MaxGroups} \cup {"absent"}

\* the example of build_query's docstring: no "internal_operator" key
ExampleTerms ==
    << [name |-> "color", terms |-> {<<"r","e","d">>, <<"b","l","u","e">>}],
       [name |-> "size",  terms |-> {<<"l","a","r","g","e">>}] >>

ExampleLogic ==
    [g \in {"color", "size"} |->
        [quote |-> (g = "size"), operator |-> OpAND]]

-----------------------------------------------------------------------------
(* State *)

Untouched == [written |-> FALSE]   \* a file main() has not opened

cliVars == <<args_metadata, group_terms, group_settings, main_group, queries,
             out_file, meta_file, printed, raised_in, steps>>

Init ==
    /\ pc = "start"
    /\ call = [fn |-> "none"]
    /\ ret = [exc |-> "not called"]
    /\ args_metadata = FALSE
    /\ group_terms = <<>>
    /\ group_settings = <<>>
    /\ main_group = None
    /\ queries = <<>>
    /\ out_file = Untouched
    /\ meta_file = Untouched
    /\ printed = <<>>
    /\ raised_in = "none"
    /\ steps = <<>>

-----------------------------------------------------------------------------
(* Direct calls of the core functions *)

CallCleanTerm ==
    /\ pc = "start"
    /\ \E term \in Terms, quote \in BOOLEAN :
          /\ call' = [fn |-> "clean_term", term |-> term, quote |-> quote]
          /\ ret' = Return(clean_term(term, quote))
    /\ pc' = "returned"
    /\ UNCHANGED cliVars

CallFormatGroup ==
    /\ pc = "start"
    /\ \E terms \in TermSets, quote \in BOOLEAN, op \in {OpOR, OpAND} :
          /\ call' = [fn |-> "format_group", terms |-> terms, quote |-> quote,
                      internal_operator |-> op]
          /\ ret' = Return(format_group(terms, quote, op))
    /\ pc' = "returned"
    /\ UNCHANGED cliVars

BuildQueryOn(gt, gl) ==
    /\ pc = "start"
    /\ call' = [fn |-> "build_query", group_terms |-> gt, group_logic |-> gl]
    /\ ret' = build_query(gt, gl)
    /\ pc' = "returned"
    /\ UNCHANGED cliVars

CallBuildQuery ==
    /\ pc = "start"
    /\ \E gt \in GroupTermsPool : \E gl \in GroupLogicPool(gt) : BuildQueryOn(gt, gl)

CallBuildQueryExample == BuildQueryOn(ExampleTerms, ExampleLogic)

CallBuildQueriesByMainGroup ==
    /\ pc = "start"
    /\ \E gt \in GroupTermsPool : \E gl \in GroupLogicPool(gt) :
        \E mg \in MainGroupPool :
          /\ call' = [fn |-> "build_queries_by_main_group", group_terms |-> gt,
                      group_logic |-> gl, main_group |-> mg]
          /\ ret' = build_queries_by_main_group(gt, gl, mg)
    /\ pc' = "returned"
    /\ UNCHANGED cliVars

-----------------------------------------------------------------------------
(* sqg.py: the loader and the writers, as main() uses them *)

\* the cells a CSV row is made of: blank, plain, padded
CellPool == { <<" ">>, <<"a">>, <<" ", "b">> }

\* the CSV files with n columns named ColumnNames[1..n]: rows[r][c] is a cell
CsvFiles(n) == UNION {[1..r -> [1..n -> CellPool]] : r \in 0..MaxRows}

\* the dict comprehension of read_csv_terms
read_csv_terms(n, rows) ==
    [c \in 1..n |->
        [name  |-> ColumnNames[c],
         terms |-> {strip(rows[r][c]) : r \in {q \in 1..Len(rows) : strip(rows[q][c]) # <<>>}}]]

\* the settings prompt_group_settings can return for one column
SettingsPool ==
    { [quote |-> FALSE, operator |-> OpAND, internal_operator |-> OpOR],
      [quote |-> TRUE,  operator |-> OpNOT, internal_operator |-> OpAND] }

\* sorted(queries) of write_queries: tuples compare by label first, and the
\* labels of one run are distinct (or the run has the single label None)
sorted_queries(qs) ==
    IF Len(qs) <= 1 THEN qs
    ELSE LET labels == sorted({qs[i][1] : i \in 1..Len(qs)})
         IN  [k \in 1..Len(labels) |->
                qs[CHOOSE i \in 1..Len(qs) : qs[i][1] = labels[k]]]

\* the blocks write_queries writes: a header line only with a main group
write_queries(qs, mg) ==
    LET ordered == sorted_queries(qs)
    IN  [k \in 1..Len(ordered) |->
            [header |-> IF mg # None THEN <<mg, ordered[k][1]>> ELSE <<>>,
             query  |-> ordered[k][2]]]

RECURSIVE terms_total(_)
terms_total(gt) ==
    IF gt = <<>> THEN 0 ELSE Cardinality(Head(gt).terms) + terms_total(Tail(gt))

\* data_row of write_summary_metadata (sq_id, timestamp and path left out)
data_row(mg, gt, gl, num_queries) ==
    [main_group  |-> IF mg # None THEN mg ELSE "(combined)",
     group_count |-> Len(gt),
     terms_total |-> terms_total(gt),
     query_count |-> num_queries,
     group_logic |-> [i \in {j \in 1..Len(gt) : gt[j].name # mg} |->
                         <<gt[i].name, gl[gt[i].name].operator,
                           internal_op_of(gl[gt[i].name])>>]]

-----------------------------------------------------------------------------
(* cli.py: main(), one action per call of its try block *)

coreVars == <<call, ret>>

\* the except clauses of main(): print one message, the run is over
Except(step, message) ==
    /\ raised_in' = step
    /\ printed' = Append(printed, message)
    /\ pc' = "done"
    /\ UNCHANGED steps

\* the call returned: main() goes on with the next statement
Returned(step, next) ==
    /\ steps' = Append(steps, step)
    /\ pc' = next
    /\ UNCHANGED raised_in

\* group_terms = read_csv_terms(args.input); headers; the no-columns return
main_read_csv_terms ==
    /\ pc = "start"
    /\ \E md \in BOOLEAN : args_metadata' = md
    /\ \/ /\ Except("read_csv_terms", "Error: Input file not found")
          /\ UNCHANGED group_terms
       \/ /\ Except("read_csv_terms", "An error occurred")
          /\ UNCHANGED group_terms
       \/ \E n \in 0..MaxGroups : \E rows \in CsvFiles(n) :
             /\ group_terms' = read_csv_terms(n, rows)
             /\ IF n = 0
                THEN /\ printed' = Append(printed, "Error: No columns found in the input file")
                     /\ Returned("read_csv_terms", "done")
                ELSE /\ printed' = printed
                     /\ Returned("read_csv_terms", "prompt")
    /\ UNCHANGED <<group_settings, main_group, queries, out_file, meta_file>>
    /\ UNCHANGED coreVars

\* group_settings = prompt_group_settings(headers); input() raises at end of input
main_prompt_group_settings ==
    /\ pc = "prompt"
    /\ \/ /\ Except("prompt_group_settings", "An error occurred")
          /\ UNCHANGED group_settings
       \/ /\ \E settings \in [Keys(group_terms) -> SettingsPool] :
                group_settings' = settings
          /\ Returned("prompt_group_settings", "select")
          /\ UNCHANGED printed
    /\ UNCHANGED <<args_metadata, group_terms, main_group, queries, out_file, meta_file>>
    /\ UNCHANGED coreVars

\* main_group = select_main_group(headers): None for 0, else headers[choice - 1]
main_select_main_group ==
    /\ pc = "select"
    /\ \/ /\ Except("select_main_group", "An error occurred")
          /\ UNCHANGED main_group
       \/ /\ \E choice \in 0..Len(group_terms) :
                main_group' = IF choice = 0 THEN None ELSE group_terms[choice].name
          /\ Returned("select_main_group", "build")
          /\ UNCHANGED printed
    /\ UNCHANGED <<args_metadata, group_terms, group_settings, queries, out_file, meta_file>>
    /\ UNCHANGED coreVars

\* the if main_group: ... else: ... that assembles queries
main_build ==
    /\ pc = "build"
    /\ LET built == IF main_group # None
                    THEN build_queries_by_main_group(group_terms, group_settings, main_group)
                    ELSE build_query(group_terms, group_settings)
       IN  IF built.exc # "none"
           THEN /\ Except("build", "An error occurred")
                /\ UNCHANGED queries
           ELSE /\ queries' = IF main_group # None THEN built.value
                              ELSE << <<None, built.value>> >>
                /\ Returned("build", "write_queries")
                /\ UNCHANGED printed
    /\ UNCHANGED <<args_metadata, group_terms, group_settings, main_group, out_file, meta_file>>
    /\ UNCHANGED coreVars

\* main() with write_queries placed before the queries are built
main_write_queries_early ==
    /\ pc = "build"
    /\ out_file' = [written |-> TRUE, blocks |-> write_queries(queries, main_group)]
    /\ Returned("write_queries", "done")
    /\ UNCHANGED <<args_metadata, group_terms, group_settings, main_group, queries,
                   meta_file, printed>>
    /\ UNCHANGED coreVars

\* write_queries(queries, args.output, main_group); open() may raise
main_write_queries ==
    /\ pc = "write_queries"
    /\ \/ /\ Except("write_queries", "An error occurred")
          /\ UNCHANGED out_file
       \/ /\ out_file' = [written |-> TRUE, blocks |-> write_queries(queries, main_group)]
          /\ Returned("write_queries",
                      IF args_metadata THEN "write_summary_metadata" ELSE "print_saved")
          /\ UNCHANGED printed
    /\ UNCHANGED <<args_metadata, group_terms, group_settings, main_group, queries, meta_file>>
    /\ UNCHANGED coreVars

\* if args.metadata: write_summary_metadata(...); print("Metadata appended ...")
main_write_summary_metadata ==
    /\ pc = "write_summary_metadata"
    /\ \/ /\ Except("write_summary_metadata", "An error occurred")
          /\ UNCHANGED meta_file
       \/ /\ meta_file' = [written |-> TRUE,
                          row |-> data_row(main_group, group_terms, group_settings,
                                           Len(queries))]
          /\ printed' = Append(printed, "Metadata appended")
          /\ Returned("write_summary_metadata", "print_saved")
    /\ UNCHANGED <<args_metadata, group_terms, group_settings, main_group, queries, out_file>>
    /\ UNCHANGED coreVars

\* print(f"{len(queries)} quer... saved to {args.output}")
main_print_saved ==
    /\ pc = "print_saved"
    /\ printed' = Append(printed, "saved")
    /\ pc' = "done"
    /\ UNCHANGED <<args_metadata, group_terms, group_settings, main_group, queries,
                   out_file, meta_file, raised_in, steps>>
    /\ UNCHANGED coreVars

Next ==
    \/ CallCleanTerm
    \/ CallFormatGroup
    \/ CallBuildQuery
    \/ CallBuildQueryExample
    \/ CallBuildQueriesByMainGroup
    \/ main_read_csv_terms
    \/ main_prompt_group_settings
    \/ main_select_main_group
    \/ main_build
    \/ main_write_queries
    \/ main_write_summary_metadata
    \/ main_print_saved

Spec == Init /\ [][Next]_vars

-----------------------------------------------------------------------------
(* Vocabulary of the properties *)

\* the concatenation of a list of strings, nothing in between
RECURSIVE Flatten(_)
Flatten(list) == IF list = <<>> THEN <<>> ELSE Head(list) \o Flatten(Tail(list))

EndsWith(s, suffix) ==
    /\ Len(suffix) <= Len(s)
    /\ SubSeq(s, Len(s) - Len(suffix) + 1, Len(s)) = suffix

Count(s, c) == Cardinality({i \in 1..Len(s) : s[i] = c})

HasSpace(s) == \E i \in 1..Len(s) : s[i] = " "
Blank(s) == \A i \in 1..Len(s) : s[i] = " "
IsQuoted(s) == Len(s) >= 2 /\ s[1] = "\"" /\ s[Len(s)] = "\""

\* the elements of a set of strings in ascending order, by counting the
\* smaller elements
Rank(t, S) == Cardinality({u \in S : StrLess(u, t)}) + 1
Ascending(S) == [i \in 1..Cardinality(S) |-> CHOOSE t \in S : Rank(t, S) = i]

Called(fn) == pc = "returned" /\ call.fn = fn

\* the groups of a mapping that have terms, with their positions kept in order
NonEmpty(gt) == SelectSeq(gt, LAMBDA g : g.terms # {})
StaticOf(gt, mg) == SelectSeq(gt, LAMBDA g : g.terms # {} /\ g.name # mg)

\* the clause of a group under its own settings
ClauseOf(g, gl) ==
    format_group(g.terms, gl[g.name].quote, internal_op_of(gl[g.name]))

FullLogic(gt, gl) == Keys(gt) \subseteq DOMAIN gl
LacksLogic(groups, gl) == \E i \in 1..Len(groups) : groups[i].name \notin DOMAIN gl

-----------------------------------------------------------------------------
(* C1 *)

\* the text C1 describes: clause, space, operator, space for every non-empty
\* group but the last, and the bare clause for the last
CombinedText(gt, gl) ==
    LET ne == NonEmpty(gt)
    IN  Flatten([i \in 1..Len(ne) |->
            IF i < Len(ne)
            THEN ClauseOf(ne[i], gl) \o SPACE \o gl[ne[i].name].operator \o SPACE
            ELSE ClauseOf(ne[i], gl)])

\* C1: with a logic entry for each group, build_query returns the non-empty
\* groups in mapping order, each as its format_group clause followed by its
\* own operator, the last one as its clause only, separated by single spaces;
\* one non-empty group gives just its clause, none gives the empty string.
C1_BuildQueryText ==
    (Called("build_query") /\ FullLogic(call.group_terms, call.group_logic))
    => /\ ret.exc = "none"
       /\ ret.value = CombinedText(call.group_terms, call.group_logic)
       /\ Len(NonEmpty(call.group_terms)) = 1
             => ret.value = ClauseOf(NonEmpty(call.group_terms)[1], call.group_logic)
       /\ Len(NonEmpty(call.group_terms)) = 0 => ret.value = <<>>

\* three groups, one of them empty, the two others joined by an operator
C1_Witness ==
    /\ Called("build_query")
    /\ FullLogic(call.group_terms, call.group_logic)
    /\ Len(call.group_terms) = 3
    /\ Len(NonEmpty(call.group_terms)) = 2
    /\ ret.exc = "none"
    /\ Len(ret.value) > 8

-----------------------------------------------------------------------------
(* C2 *)

\* the text C2 describes for the main value v
MainText(gt, gl, mg, v) ==
    LET st == StaticOf(gt, mg)
    IN  Flatten([i \in 1..Len(st) |->
            ClauseOf(st[i], gl) \o SPACE \o gl[st[i].name].operator \o SPACE])
        \o format_group({v}, gl[mg].quote, internal_op_of(gl[mg]))

\* C2: with main_group a key of group_terms, every returned query is, in
\* mapping order, each non-empty group other than the main group as its
\* clause followed by its operator, then the main group's clause of the
\* singleton {v} under the main group's own settings, with no trailing
\* operator; empty groups contribute nothing.
C2_MainGroupText ==
    (/\ Called("build_queries_by_main_group")
     /\ call.main_group \in Keys(call.group_terms)
     /\ ret.exc = "none")
    => \A k \in 1..Len(ret.value) :
          ret.value[k][2] = MainText(call.group_terms, call.group_logic,
                                     call.main_group, ret.value[k][1])

\* two main values, a non-empty static group and an empty static group
C2_Witness ==
    /\ Called("build_queries_by_main_group")
    /\ call.main_group \in Keys(call.group_terms)
    /\ ret.exc = "none"
    /\ Len(ret.value) = 2
    /\ Len(call.group_terms) = 3
    /\ Len(StaticOf(call.group_terms, call.main_group)) = 1

-----------------------------------------------------------------------------
(* C3 *)

\* C3: build_queries_by_main_group returns one pair per distinct value of the
\* main group's term set, the labels being exactly those values, without
\* duplicates, in ascending order; an empty main term set gives the empty
\* sequence and no error; with a logic entry for each group the call returns.
C3_Cardinality ==
    (/\ Called("build_queries_by_main_group")
     /\ call.main_group \in Keys(call.group_terms))
    => LET values == TermsOf(call.group_terms, call.main_group)
       IN  /\ values = {} => (ret.exc = "none" /\ ret.value = <<>>)
           /\ FullLogic(call.group_terms, call.group_logic) => ret.exc = "none"
           /\ ret.exc = "none"
                 => /\ Len(ret.value) = Cardinality(values)
                    /\ {ret.value[k][1] : k \in 1..Len(ret.value)} = values
                    /\ \A j, k \in 1..Len(ret.value) :
                          j < k => StrLess(ret.value[j][1], ret.value[k][1])

\* a main group of two values, returned as two labelled queries
C3_Witness ==
    /\ Called("build_queries_by_main_group")
    /\ call.main_group \in Keys(call.group_terms)
    /\ Cardinality(TermsOf(call.group_terms, call.main_group)) = 2
    /\ ret.exc = "none"
    /\ Len(ret.value) = 2

-----------------------------------------------------------------------------
(* C4 *)

\* C4 as claimed: whenever a key of group_terms has no entry in group_logic,
\* whatever its term set, build_query and build_queries_by_main_group fail
\* with the configuration error (KeyError) and return nothing.
C4_AnyMissingKeyRaises ==
    (/\ \/ Called("build_query")
        \/ /\ Called("build_queries_by_main_group")
           /\ call.main_group \in Keys(call.group_terms)
     /\ ~ FullLogic(call.group_terms, call.group_logic))
    => (ret.exc = "KeyError" /\ "value" \notin DOMAIN ret)

\* C4 as amended: build_query fails exactly when a group with a non-empty
\* term set has no logic entry; build_queries_by_main_group, given a main
\* group that is a key, fails exactly when the main term set is non-empty and
\* the main group or a non-empty other group has no logic entry; a failing
\* call returns nothing.
C4_UsedMissingKeyRaises ==
    /\ Called("build_query")
       => /\ ret.exc \in {"none", "KeyError"}
          /\ ret.exc = "KeyError"
                <=> LacksLogic(NonEmpty(call.group_terms), call.group_logic)
          /\ ret.exc = "KeyError" => "value" \notin DOMAIN ret
    /\ (/\ Called("build_queries_by_main_group")
        /\ call.main_group \in Keys(call.group_terms))
       => /\ ret.exc \in {"none", "KeyError"}
          /\ ret.exc = "KeyError"
                <=> /\ TermsOf(call.group_terms, call.main_group) # {}
                    /\ \/ call.main_group \notin DOMAIN call.group_logic
                       \/ LacksLogic(StaticOf(call.group_terms, call.main_group),
                                     call.group_logic)
          /\ ret.exc = "KeyError" => "value" \notin DOMAIN ret

\* a non-empty group without logic made build_query fail
C4_Witness ==
    /\ Called("build_query")
    /\ LacksLogic(NonEmpty(call.group_terms), call.group_logic)
    /\ Len(NonEmpty(call.group_terms)) >= 2
    /\ ret.exc = "KeyError"

-----------------------------------------------------------------------------
(* C5 *)

\* C5: build_query returns what it returns on the mapping with the empty
\* groups removed, wherever they sit, and the text ends with the clause of
\* the last non-empty group: no operator trails it.
C5_EmptyGroupSkip ==
    Called("build_query")
    => /\ ret = build_query(NonEmpty(call.group_terms), call.group_logic)
       /\ (ret.exc = "none" /\ NonEmpty(call.group_terms) # <<>>)
             => LET ne == NonEmpty(call.group_terms)
                IN  EndsWith(ret.value, ClauseOf(ne[Len(ne)], call.group_logic))

\* an empty group between two non-empty ones
C5_Witness ==
    /\ Called("build_query")
    /\ Len(call.group_terms) = 3
    /\ call.group_terms[1].terms # {}
    /\ call.group_terms[2].terms = {}
    /\ call.group_terms[3].terms # {}
    /\ ret.exc = "none"

-----------------------------------------------------------------------------
(* C6 *)

\* the text C6 describes
GroupText(terms, quote, op) ==
    LET kept == Ascending({t \in terms : t # <<>>})
    IN  IF kept = <<>> THEN <<>>
        ELSE <<"(">>
             \o Flatten([i \in 1..Len(kept) |->
                    IF i = 1 THEN clean_term(kept[i], quote)
                    ELSE SPACE \o op \o SPACE \o clean_term(kept[i], quote)])
             \o <<")">>

\* C6: format_group drops the empty terms, puts the others in ascending
\* order, formats each with clean_term, joins them with space-operator-space
\* and wraps the whole in exactly one pair of parentheses; a singleton gives
\* a parenthesized single term, no remaining term gives the empty string.
C6_FormatGroup ==
    Called("format_group")
    => LET kept == {t \in call.terms : t # <<>>}
       IN  /\ ret.value = GroupText(call.terms, call.quote, call.internal_operator)
           /\ kept = {} => ret.value = <<>>
           /\ kept # {} => /\ Count(ret.value, "(") = 1 /\ ret.value[1] = "("
                           /\ Count(ret.value, ")") = 1
                           /\ ret.value[Len(ret.value)] = ")"
           /\ \A t \in kept :
                 kept = {t} => ret.value = <<"(">> \o clean_term(t, call.quote) \o <<")">>

\* three terms and the empty term, formatted
C6_Witness ==
    /\ Called("format_group")
    /\ Cardinality({t \in call.terms : t # <<>>}) >= 2
    /\ <<>> \in call.terms
    /\ Len(ret.value) > 6

-----------------------------------------------------------------------------
(* C7 *)

\* C7: clean_term returns the empty string for an empty or blank term;
\* otherwise the result is wrapped in double quotes exactly when quote is
\* true or the term contains a space, and it is the term itself when quote is
\* false and the term contains no space.
C7_CleanTerm ==
    Called("clean_term")
    => IF Blank(call.term)
       THEN ret.value = <<>>
       ELSE /\ IsQuoted(ret.value) <=> (call.quote \/ HasSpace(call.term))
            /\ (~ call.quote /\ ~ HasSpace(call.term)) => ret.value = call.term

-----------------------------------------------------------------------------
(* C8 *)

\* C8: build_queries_by_main_group fails with the invalid-main-group error
\* (ValueError) and returns nothing whenever main_group is no key of
\* group_terms, also when group_logic lacks entries.
C8_InvalidMainGroup ==
    (/\ Called("build_queries_by_main_group")
     /\ call.main_group \notin Keys(call.group_terms))
    => (ret.exc = "ValueError" /\ "value" \notin DOMAIN ret)

\* main_group is no key while a non-empty group lacks its logic entry
C8_Witness ==
    /\ Called("build_queries_by_main_group")
    /\ call.main_group \notin Keys(call.group_terms)
    /\ LacksLogic(NonEmpty(call.group_terms), call.group_logic)
    /\ ret.exc = "ValueError"

-----------------------------------------------------------------------------
(* C9 *)

\* C9: for color = {red, blue} then size = {large}, color unquoted, size
\* quoted, both AND outside and OR inside, build_query returns exactly
\* (blue OR red) AND "large".
C9_Scenario ==
    (/\ Called("build_query")
     /\ call.group_terms = ExampleTerms
     /\ call.group_logic = ExampleLogic)
    => (ret.exc = "none" /\ Render(ret.value) = "(blue OR red) AND \"large\"")

-----------------------------------------------------------------------------
(* C10 *)

\* the position of a call of main() among those that returned, 0 if it did not
Pos(step) ==
    IF \E i \in 1..Len(steps) : steps[i] = step
    THEN CHOOSE i \in 1..Len(steps) : steps[i] = step
    ELSE 0

BeforeWriting == {"read_csv_terms", "prompt_group_settings", "select_main_group", "build"}

\* C10: the query file is written only after the queries were assembled, the
\* metadata row only after the query file was written; when loading,
\* prompting or assembling raises, the run ends with one error message and
\* neither file has been created or modified.
C10_RunOrdering ==
    /\ out_file.written
          => (0 < Pos("build") /\ Pos("build") < Pos("write_queries"))
    /\ meta_file.written
          => /\ out_file.written
             /\ Pos("write_queries") < Pos("write_summary_metadata")
    /\ raised_in \in BeforeWriting
          => /\ pc = "done"
             /\ ~ out_file.written
             /\ ~ meta_file.written
             /\ Len(printed) = 1
             /\ printed[1] \in {"Error: Input file not found", "An error occurred"}

\* a run that wrote the query file and then the metadata row
C10_Witness ==
    /\ pc = "done"
    /\ out_file.written
    /\ meta_file.written
    /\ Len(out_file.blocks) = 2
    /\ steps[Len(steps)] = "write_summary_metadata"

\* a run that ended in the prompt with nothing written
C10_WitnessRaised ==
    /\ pc = "done"
    /\ raised_in = "prompt_group_settings"
    /\ ~ out_file.written

====
